---------------------------- MODULE Spec2Model ----------------------------
(***************************************************************************)
(* A model of the MTGA card data reader (src/mtga.py, class mtga_reader)   *)
(* and of the database discovery of the schema inspector                   *)
(* (src/inspect_mtga_db.py, discover_databases).                           *)
(*                                                                         *)
(* Python values are modelled as tagged records: None, PyInt(n), PyStr(s). *)
(* Identifiers, language codes and table names that the code inspects      *)
(* character by character are sequences of one-character strings.          *)
(***************************************************************************)
EXTENDS Integers, Sequences, FiniteSets, TLC

VARIABLES
    connections,   \* mtga_reader.connections, the class attribute (mtga.py:18)
    closed,        \* the logical names whose connection object close() has closed
    enums,         \* mtga_reader.enums, the class attribute (mtga.py:19)
    readers,       \* the reader objects: their instance attributes
    nConstructed,  \* how many times mtga_reader(...) has been called
    lastCall,      \* the last operation, its arguments and what it returned
    dTargets,      \* discover_databases: the targets argument
    dRecursive,    \* discover_databases: the recursive argument
    dResult,       \* discover_databases: the returned list
    aCardId,       \* find_card_art_file: the card_id argument
    aContainer,    \* find_card_art_file: the assets of the matched bundles
    aResult        \* find_card_art_file: the returned dict

vars == <<connections, closed, enums, readers, nConstructed, lastCall,
          dTargets, dRecursive, dResult, aCardId, aContainer, aResult>>

readerVars == <<connections, closed, enums, readers, nConstructed, lastCall>>
discoverVars == <<dTargets, dRecursive, dResult>>
artVars == <<aCardId, aContainer, aResult>>

-----------------------------------------------------------------------------
(* Bounds of the model *)

MaxConstructions == 2
MaxTargets == 2
MaxAssets == 2

-----------------------------------------------------------------------------
(* Python values *)

None == [none |-> TRUE]
PyInt(n) == [int |-> n]
PyBool(b) == [bool |-> b]
PyStr(s) == [str |-> s]
\* a str that the model holds as a sequence of characters
PyName(s) == [name |-> s]
PyList(s) == [list |-> s]
Raise(e) == [exc |-> e]
IsRaise(v) == "exc" \in DOMAIN v

\* Python truthiness of a value: None, 0 and '' are false
Truthy(v) == v # None /\ v # PyInt(0) /\ v # PyStr("")

Range(s) == {s[i] : i \in DOMAIN s}

-----------------------------------------------------------------------------
(* Character strings *)

\* the code points of the characters the model uses (ord)
Ord ==
    [c \in {"-", ".", "A", "E", "F", "G", "J", "M", "N", "P", "R", "S", "T", "U", "X",
            "_", "a", "e", "f", "g", "j", "m", "n", "p", "r", "s", "t", "u", "x"} |->
        CASE c = "-" -> 45  [] c = "." -> 46
          [] c = "A" -> 65  [] c = "E" -> 69  [] c = "F" -> 70  [] c = "G" -> 71
          [] c = "J" -> 74  [] c = "M" -> 77  [] c = "N" -> 78  [] c = "P" -> 80
          [] c = "R" -> 82  [] c = "S" -> 83  [] c = "T" -> 84  [] c = "U" -> 85
          [] c = "X" -> 88
          [] c = "_" -> 95
          [] c = "a" -> 97  [] c = "e" -> 101 [] c = "f" -> 102 [] c = "g" -> 103
          [] c = "j" -> 106 [] c = "m" -> 109 [] c = "n" -> 110 [] c = "p" -> 112
          [] c = "r" -> 114 [] c = "s" -> 115 [] c = "t" -> 116 [] c = "u" -> 117
          [] c = "x" -> 120]

Chars == DOMAIN Ord

\* str.lower() on one character
LowerChar(c) ==
    IF Ord[c] >= 65 /\ Ord[c] <= 90
    THEN CHOOSE d \in Chars : Ord[d] = Ord[c] + 32
    ELSE c

\* str.replace(ch, '')
RECURSIVE Remove(_, _)
Remove(s, ch) ==
    IF s = <<>> THEN <<>>
    ELSE IF Head(s) = ch THEN Remove(Tail(s), ch)
    ELSE <<Head(s)>> \o Remove(Tail(s), ch)

\* str.lower()
StrLower(s) == [i \in DOMAIN s |-> LowerChar(s[i])]

\* the order of str, by code point
RECURSIVE StrLess(_, _)
StrLess(a, b) ==
    IF b = <<>> THEN FALSE
    ELSE IF a = <<>> THEN TRUE
    ELSE IF Ord[Head(a)] # Ord[Head(b)] THEN Ord[Head(a)] < Ord[Head(b)]
    ELSE StrLess(Tail(a), Tail(b))

\* sorted(S) for a set of strings
RECURSIVE SortedStrs(_)
SortedStrs(S) ==
    IF S = {} THEN <<>>
    ELSE LET m == CHOOSE x \in S : \A y \in S \ {x} : StrLess(x, y)
         IN  <<m>> \o SortedStrs(S \ {m})

-----------------------------------------------------------------------------
(* The files under test: installation roots and the databases in them.     *)
(* The databases are read-only (no write path exists), so their content is *)
(* a fixed function of the root.                                           *)

\* the logical database names, in the order get_databases opens them
dbs == <<"ArtCropDatabase", "CardDatabase", "ClientLocalization",
         "altArtCredits", "altFlavorTexts", "credits">>

Roots == {"R1", "R3", "R4", "R5"}

\* the logical names for which a Raw_<name>_*.mtga file exists under the root
RootFiles(root) ==
    IF root = "R4" THEN Range(dbs) \ {"ClientLocalization"} ELSE Range(dbs)

enUS == <<"e", "n", "U", "S">>
jaJP == <<"j", "a", "J", "P">>
frFR == <<"f", "r", "F", "R">>

\* 'Localizations_' + suffix
TableName(suffix) == <<"Localizations_">> \o suffix

\* the rows of sqlite_master that set_language selects, in catalog order
RootTables(root) ==
    CASE root = "R1" -> <<TableName(enUS), TableName(jaJP)>>
      [] root = "R3" -> <<>>
      [] root = "R4" -> <<TableName(enUS)>>
      [] root = "R5" -> <<TableName(frFR), TableName(jaJP)>>

LocRow(id, formatted, loc) == [LocId |-> PyInt(id), Formatted |-> formatted, Loc |-> PyStr(loc)]

\* the rows of a Localizations_* table of the root's CardDatabase
LocRows(root, table) ==
    CASE root = "R1" /\ table = TableName(enUS) ->
            {LocRow(10, 1, "Lightning Bolt"), LocRow(10, 0, "lightning bolt"),
             LocRow(11, 1, "Shock"), LocRow(12, 1, "Color")}
      [] root = "R1" /\ table = TableName(jaJP) ->
            {LocRow(10, 1, "Inazuma"), LocRow(11, 1, ""), LocRow(12, 1, "Iro")}
      [] root = "R4" /\ table = TableName(enUS) ->
            {LocRow(10, 1, "Bolt")}
      [] root = "R5" /\ table = TableName(jaJP) ->
            {LocRow(10, 1, "Inazuma")}
      [] root = "R5" /\ table = TableName(frFR) ->
            {LocRow(10, 1, "Foudre"), LocRow(11, 1, "Choc")}
      [] OTHER -> {}

\* the text identifiers callers pass
TextIds == {None, PyInt(10), PyInt(11), PyInt(13)}

EnumRow(type, value, id) == [Type |-> type, Value |-> value, LocId |-> PyInt(id)]

\* the rows of the Enums table, in result order
EnumRows(root) ==
    CASE root = "R1" -> <<EnumRow("Color", 1, 12), EnumRow("Rarity", 1, 13)>>
      [] root = "R5" -> <<EnumRow("CardType", 2, 11)>>
      [] OTHER -> <<>>

CardRow(grp, title, art) == [GrpId |-> grp, TitleId |-> PyInt(title), ArtId |-> art]

\* the rows of the Cards table in rowid order; GrpId is its primary key
CardRows(root) ==
    CASE root = "R1" -> <<CardRow(100, 10, 5), CardRow(101, 10, 6), CardRow(102, 11, 7)>>
      [] root = "R5" -> <<CardRow(200, 10, 5)>>
      [] OTHER -> <<>>

\* the name patterns callers pass to get_card_by_name
Patterns == {"%", "lightning bolt"}

\* SQLite's  Loc LIKE pattern  on the texts of the databases above:
\* % matches any run of characters, letters match case-insensitively
Like(loc, pattern) ==
    CASE pattern = "%" -> TRUE
      [] pattern = "lightning bolt" -> loc \in {"Lightning Bolt", "lightning bolt"}
      [] OTHER -> FALSE

\* the language identifiers callers pass
Langs == { <<"e", "n", "_", "u", "s">>, <<"j", "a", "-", "J", "P">>, <<"x", "x">> }

-----------------------------------------------------------------------------
(* The reader: class mtga_reader.                                          *)
(* A reader object `self` is a record of its instance attributes, to which *)
(* the operators add the class attributes it reads through self:           *)
(*   self.connections, self.closed : the handle set and the closed handles *)
(*   self.mtga_root_dir, self.lang, self.lang_table,                       *)
(*   self.default_lang_table                                               *)
(* A table attribute that is still None is the empty sequence.             *)

NoTable == <<>>

\* the object sqlite3.connect returns: a new, open connection to the file of
\* the logical name under the root. A dict entry holds one object and no object
\* is held twice, so an object is told by its entry; whether it was closed is
\* kept in self.closed, and which entries a call stored is told in its result.
Connection(db, root) == [db |-> db, root |-> root]

\* self.connections['CardDatabase'].cursor(): the exception it raises, or ""
CursorError(self) ==
    IF "CardDatabase" \notin DOMAIN self.connections THEN "KeyError"
    ELSE IF "CardDatabase" \in self.closed THEN "ProgrammingError"
    ELSE ""

\* the root whose CardDatabase file the cursor reads
CardDb(self) == self.connections["CardDatabase"].root

\* get_databases(self), run on the dict conns for the files of root: the dict
\* afterwards, the entries it stored and whether every file was found
RECURSIVE OpenFrom(_, _, _, _)
OpenFrom(conns, stored, i, root) ==
    IF i > Len(dbs) THEN [connections |-> conns, stored |-> stored, ok |-> TRUE]
    ELSE IF dbs[i] \notin RootFiles(root)
    THEN [connections |-> conns, stored |-> stored, ok |-> FALSE]
    ELSE OpenFrom([d \in DOMAIN conns \cup {dbs[i]} |->
                      IF d = dbs[i] THEN Connection(dbs[i], root) ELSE conns[d]],
                  stored \cup {dbs[i]}, i + 1, root)

get_databases(conns, root) == OpenFrom(conns, {}, 1, root)

\* a plausible slip: only the hyphen is stripped
normalize_HyphenOnly(name) == StrLower(Remove(name, "-"))

\* normalize(name) of set_language
normalize(name) == StrLower(Remove(Remove(name, "-"), "_"))

\* name.split('Localizations_')[1]
LangOf(name) == Tail(name)

\* available_langs.get(key): the dict comprehension keeps the last table of a key
RECURSIVE DictGet(_, _)
DictGet(available_tables, key) ==
    IF available_tables = <<>> THEN NoTable
    ELSE LET n == Len(available_tables)
             last == available_tables[n]
         IN  IF normalize(LangOf(last)) = key THEN last
             ELSE DictGet(SubSeq(available_tables, 1, n - 1), key)

\* a plausible slip: the keys are the language codes as the tables spell them
LangKeys_Raw(available_tables) == {LangOf(t) : t \in Range(available_tables)}

\* available_langs.keys()
LangKeys(available_tables) == {normalize(LangOf(t)) : t \in Range(available_tables)}

\* set_language(self, lang): what it returns or raises (ret), the tables it
\* discovered, and the attributes of self afterwards
set_language(self, lang) ==
    IF CursorError(self) # ""
    THEN [ret |-> Raise(CursorError(self)), discovered |-> FALSE,
          lang |-> self.lang, lang_table |-> self.lang_table,
          default_lang_table |-> self.default_lang_table]
    ELSE
    LET available_tables == RootTables(CardDb(self))
        normalized_target == normalize(lang)
        matched_table == DictGet(available_tables, normalized_target)
        en == DictGet(available_tables, normalize(enUS))
        default == IF en # NoTable THEN en ELSE available_tables[1]
    IN  IF LangKeys(available_tables) = {}
        THEN [ret |-> [exc |-> "ValueError", msg |-> "No localization tables found"],
              discovered |-> TRUE, available_tables |-> available_tables,
              lang |-> self.lang, lang_table |-> self.lang_table,
              default_lang_table |-> self.default_lang_table]
        ELSE IF matched_table = NoTable
        THEN [ret |-> [exc |-> "ValueError", msg |-> "not available", lang |-> lang,
                       options |-> SortedStrs(LangKeys(available_tables))],
              discovered |-> TRUE, available_tables |-> available_tables,
              lang |-> self.lang, lang_table |-> self.lang_table,
              default_lang_table |-> default]
        ELSE [ret |-> PyName(matched_table),
              discovered |-> TRUE, available_tables |-> available_tables,
              lang |-> lang, lang_table |-> matched_table,
              default_lang_table |-> default]

\* _lookup_localization(self, text_id, table_name)
lookup_localization(self, text_id, table_name) ==
    IF CursorError(self) # "" THEN Raise(CursorError(self))
    ELSE IF table_name \notin Range(RootTables(CardDb(self))) THEN Raise("OperationalError")
    ELSE LET rows == {row \in LocRows(CardDb(self), table_name) : row.LocId = text_id}
         IN  IF rows = {} THEN None
             ELSE (CHOOSE row \in rows : \A o \in rows : o.Formatted <= row.Formatted).Loc

\* a plausible slip: an unresolved identifier yields the last lookup's result
get_card_translation_id_LastLookup(self, text_id) ==
    IF text_id = None THEN None
    ELSE
    LET translation == lookup_localization(self, text_id, self.lang_table)
        fallback == lookup_localization(self, text_id, self.default_lang_table)
    IN  IF IsRaise(translation) THEN text_id
        ELSE IF Truthy(translation) THEN translation
        ELSE IF self.default_lang_table # NoTable
                /\ self.default_lang_table # self.lang_table
        THEN IF IsRaise(fallback) THEN text_id ELSE fallback
        ELSE translation

\* get_card_translation_id(self, text_id)
get_card_translation_id(self, text_id) ==
    IF text_id = None THEN None
    ELSE
    LET translation == lookup_localization(self, text_id, self.lang_table)
        fallback == lookup_localization(self, text_id, self.default_lang_table)
    IN  IF IsRaise(translation) THEN text_id
        ELSE IF Truthy(translation) THEN translation
        ELSE IF self.default_lang_table # NoTable
                /\ self.default_lang_table # self.lang_table
        THEN IF IsRaise(fallback) THEN text_id
             ELSE IF Truthy(fallback) THEN fallback
             ELSE text_id
        ELSE text_id

\* the category -> {value -> text} dict after the rows of one category are stored
RECURSIVE EnumFill(_, _, _, _)
EnumFill(self, d, rows, enum_type) ==
    IF rows = <<>> THEN d
    ELSE LET linha == Head(rows)
             stored == IF linha.Type # enum_type THEN d
                       ELSE [v \in DOMAIN d \cup {linha.Value} |->
                               IF v = linha.Value
                               THEN get_card_translation_id(self, linha.LocId)
                               ELSE d[v]]
         IN  EnumFill(self, stored, Tail(rows), enum_type)

\* get_enums(self), run on the class dict enums0: the dict afterwards
get_enums(self, enums0) ==
    LET rows == EnumRows(CardDb(self))
        types == {rows[i].Type : i \in DOMAIN rows}
        reset == [t \in DOMAIN enums0 \cup types |-> IF t \in types THEN <<>> ELSE enums0[t]]
    IN  [enum_type \in DOMAIN reset |-> EnumFill(self, reset[enum_type], rows, enum_type)]

\* str(n) for n >= 0, as a sequence of digit characters
Digits == <<"0", "1", "2", "3", "4", "5", "6", "7", "8", "9">>

RECURSIVE StrOfInt(_)
StrOfInt(n) ==
    IF n < 10 THEN <<Digits[n + 1]>>
    ELSE StrOfInt(n \div 10) \o <<Digits[(n % 10) + 1]>>

\* sub in path, for a path held as a sequence of tokens
Contains(path, sub) ==
    \E i \in 0..(Len(path) - Len(sub)) : SubSeq(path, i + 1, i + Len(sub)) = sub

\* path.split(sep)[0]
BeforeFirst(path, sep) ==
    IF sep \notin Range(path) THEN path
    ELSE SubSeq(path, 1, (CHOOSE i \in DOMAIN path :
                            path[i] = sep /\ \A j \in 1..(i - 1) : path[j] # sep) - 1)

\* path.split(sep)[-1]
AfterLast(path, sep) ==
    IF sep \notin Range(path) THEN path
    ELSE SubSeq(path, (CHOOSE i \in DOMAIN path :
                         path[i] = sep /\ \A j \in (i + 1)..Len(path) : path[j] # sep) + 1,
                Len(path))

\* 'Util' in path
HasUtil(path) == Contains(path, <<"Util">>)

\* f'{card_id}_AIF.' in path
HasAif(card_id, path) == Contains(path, StrOfInt(card_id) \o <<"_", "AIF", ".">>)

\* path.split(".")[0].split("_")[-1]
SuffixToken(path) == AfterLast(BeforeFirst(path, "."), "_")

\* the keys under which find_card_art_file stores the image of one asset
ArtLabels(card_id, path) ==
    (IF HasUtil(path) THEN {<<"util">>} ELSE {})
    \cup (IF HasAif(card_id, path) THEN {<<"image">>} ELSE {SuffixToken(path)})

\* the loop of find_card_art_file over the assets of the globbed bundles, in
\* container order: key -> the asset whose decoded image was stored last
RECURSIVE ArtStore(_, _, _)
ArtStore(ret, card_id, container) ==
    IF container = <<>> THEN ret
    ELSE LET asset == Head(container)
             labels == IF asset.type \in {"Texture2D", "Sprite"}
                       THEN ArtLabels(card_id, asset.path) ELSE {}
         IN  ArtStore([l \in DOMAIN ret \cup labels |->
                          IF l \in labels THEN asset ELSE ret[l]],
                      card_id, Tail(container))

\* find_card_art_file(self, card_id), container being env.container.items()
\* of the bundles the glob finds
find_card_art_file(card_id, container) ==
    ArtStore([l \in {<<"image">>, <<"util">>} |-> None], card_id, container)

\* get_card_by_id(self, card_id, get_art); the roots hold no asset bundle
get_card_by_id(self, card_id, get_art) ==
    IF CursorError(self) # "" THEN Raise(CursorError(self))
    ELSE LET rows == SelectSeq(CardRows(CardDb(self)), LAMBDA row : row.GrpId = card_id)
         IN  IF rows = <<>> THEN None
             ELSE [GrpId |-> rows[1].GrpId,
                   title |-> get_card_translation_id(self, rows[1].TitleId),
                   art |-> IF get_art THEN find_card_art_file(rows[1].ArtId, <<>>)
                           ELSE PyInt(rows[1].ArtId)]

\* get_card_by_name(self, card_name, limit, get_art)
get_card_by_name(self, card_name, limit, get_art) ==
    IF CursorError(self) # "" THEN Raise(CursorError(self))
    ELSE IF self.lang_table \notin Range(RootTables(CardDb(self)))
    THEN Raise("OperationalError")
    ELSE
    LET root == CardDb(self)
        ids == {row.LocId : row \in {x \in LocRows(root, self.lang_table) :
                                        Like(x.Loc.str, card_name)}}
        matches == SelectSeq(CardRows(root), LAMBDA row : row.TitleId \in ids)
        fetched == IF Truthy(limit) /\ limit.int >= 0 /\ limit.int < Len(matches)
                   THEN SubSeq(matches, 1, limit.int)
                   ELSE matches
    IN  PyList([i \in DOMAIN fetched |-> get_card_by_id(self, fetched[i].GrpId, get_art)])

\* close(self): the closed handles afterwards
close(self) == self.closed \cup DOMAIN self.connections

-----------------------------------------------------------------------------
(* The reader's operations as actions *)

Readers == {"A", "B"}

\* the limits callers pass to get_card_by_name
Limits == {None, PyInt(0), PyInt(1)}

\* a reader that has not been constructed; own_connections tells that the
\* object has an instance attribute connections = {} (mtga.py:50) that hides
\* the class attribute
NoReader ==
    [alive |-> FALSE, mtga_root_dir |-> "", lang |-> <<>>, lang_table |-> NoTable,
     default_lang_table |-> NoTable, own_connections |-> FALSE]

\* the object r as the methods see it
Self(r) ==
    [connections |-> IF readers[r].own_connections THEN <<>> ELSE connections,
     closed |-> closed, lang |-> readers[r].lang,
     lang_table |-> readers[r].lang_table,
     default_lang_table |-> readers[r].default_lang_table]

InitReaders ==
    /\ connections = <<>>
    /\ closed = {}
    /\ enums = <<>>
    /\ readers = [r \in Readers |-> NoReader]
    /\ nConstructed = 0
    /\ lastCall = [op |-> "none"]

InitDiscoverIdle ==
    /\ dTargets = <<>>
    /\ dRecursive = FALSE
    /\ dResult = None

InitArtIdle ==
    /\ aCardId = 0
    /\ aContainer = <<>>
    /\ aResult = None

\* mtga_reader(root, lang): __init__
Construct(r, root, lang) ==
    /\ ~readers[r].alive
    /\ r = "B" => readers["A"].alive
    /\ nConstructed < MaxConstructions
    /\ LET opened == get_databases(connections, root)
           self0 == [connections |-> IF opened.ok THEN opened.connections ELSE <<>>,
                     closed |-> closed \ opened.stored, lang |-> lang, lang_table |-> NoTable,
                     default_lang_table |-> NoTable]
           sel == set_language(self0, lang)
           self1 == [self0 EXCEPT !.lang_table = sel.lang_table,
                                  !.default_lang_table = sel.default_lang_table]
       IN  /\ connections' = opened.connections
           /\ nConstructed' = nConstructed + 1
           \* a stored entry holds a new, open object
           /\ closed' = closed \ opened.stored
           /\ lastCall' = [op |-> "construct", reader |-> r, root |-> root,
                           lang |-> lang, stored |-> opened.stored, sel |-> sel]
           /\ IF IsRaise(sel.ret)
              THEN /\ enums' = enums
                   /\ readers' = readers
              ELSE /\ enums' = get_enums(self1, enums)
                   /\ readers' = [readers EXCEPT ![r] =
                         [alive |-> TRUE, mtga_root_dir |-> root, lang |-> sel.lang,
                          lang_table |-> sel.lang_table,
                          default_lang_table |-> sel.default_lang_table,
                          own_connections |-> FALSE]]
    /\ UNCHANGED <<discoverVars, artVars>>

\* r.get_databases(), called on a reader that exists: the handles are opened
\* anew from the files of the reader's root
GetDatabases(r) ==
    /\ readers[r].alive
    /\ LET opened == get_databases(Self(r).connections, readers[r].mtga_root_dir)
           \* the entries of the class dict that the call stored
           stored == IF readers[r].own_connections THEN {} ELSE opened.stored
       IN  /\ connections' = IF readers[r].own_connections THEN connections
                             ELSE opened.connections
           /\ closed' = closed \ stored
           /\ readers' = [readers EXCEPT ![r].own_connections = @ \/ ~opened.ok]
           /\ lastCall' = [op |-> "get_databases", reader |-> r, stored |-> stored,
                           ret |-> PyBool(opened.ok)]
    /\ UNCHANGED <<enums, nConstructed, discoverVars, artVars>>

\* r.get_enums(), called on a reader that exists: the class dict is filled
\* again from the Enums table behind the CardDatabase handle
GetEnums(r) ==
    /\ readers[r].alive
    /\ IF CursorError(Self(r)) # ""
       THEN /\ enums' = enums
            /\ lastCall' = [op |-> "get_enums", reader |-> r,
                            ret |-> Raise(CursorError(Self(r)))]
       ELSE /\ enums' = get_enums(Self(r), enums)
            /\ lastCall' = [op |-> "get_enums", reader |-> r, ret |-> PyBool(TRUE)]
    /\ UNCHANGED <<connections, closed, readers, nConstructed, discoverVars, artVars>>

SetLanguage(r, lang) ==
    /\ readers[r].alive
    /\ LET sel == set_language(Self(r), lang)
       IN  /\ readers' = [readers EXCEPT ![r].lang = sel.lang,
                                         ![r].lang_table = sel.lang_table,
                                         ![r].default_lang_table = sel.default_lang_table]
           /\ lastCall' = [op |-> "set_language", reader |-> r, lang |-> lang, sel |-> sel]
    /\ UNCHANGED <<connections, closed, enums, nConstructed, discoverVars, artVars>>

Close(r) ==
    /\ readers[r].alive
    /\ closed' = close(Self(r))
    /\ lastCall' = [op |-> "close", reader |-> r]
    /\ UNCHANGED <<connections, enums, readers, nConstructed, discoverVars, artVars>>

GetCardTranslationId(r, text_id) ==
    /\ readers[r].alive
    /\ lastCall' = [op |-> "get_card_translation_id", reader |-> r, text_id |-> text_id,
                    ret |-> get_card_translation_id(Self(r), text_id)]
    /\ UNCHANGED <<connections, closed, enums, readers, nConstructed,
                   discoverVars, artVars>>

GetCardByName(r, card_name, limit, get_art) ==
    /\ readers[r].alive
    /\ lastCall' = [op |-> "get_card_by_name", reader |-> r, card_name |-> card_name,
                    limit |-> limit, get_art |-> get_art,
                    ret |-> get_card_by_name(Self(r), card_name, limit, get_art)]
    /\ UNCHANGED <<connections, closed, enums, readers, nConstructed,
                   discoverVars, artVars>>

Init == InitReaders /\ InitDiscoverIdle /\ InitArtIdle

\* the life of the readers and their text lookups
Next ==
    \/ \E r \in Readers, root \in Roots, lang \in Langs : Construct(r, root, lang)
    \/ \E r \in Readers, lang \in Langs : SetLanguage(r, lang)
    \/ \E r \in Readers : Close(r)
    \/ \E r \in Readers : GetDatabases(r)
    \/ \E r \in Readers : GetEnums(r)
    \/ \E r \in Readers, text_id \in TextIds : GetCardTranslationId(r, text_id)

Spec == Init /\ [][Next]_vars

\* the life of the readers and their card lookups
NextCards ==
    \/ \E r \in Readers, root \in Roots, lang \in Langs : Construct(r, root, lang)
    \/ \E r \in Readers, lang \in Langs : SetLanguage(r, lang)
    \/ \E r \in Readers : Close(r)
    \/ \E r \in Readers : GetDatabases(r)
    \/ \E r \in Readers : GetEnums(r)
    \/ \E r \in Readers, card_name \in Patterns, limit \in Limits, get_art \in BOOLEAN :
          GetCardByName(r, card_name, limit, get_art)

SpecCards == Init /\ [][NextCards]_vars

-----------------------------------------------------------------------------
(* Properties of the text resolver and the language resolver (Spec) *)

\* the object on which the last call ran; lookups leave every attribute alone
CallSelf == Self(lastCall.reader)

\* the rows of a table with the given LocId, in the database the reader's
\* CardDatabase handle reads; none when the handle or the table is unusable
RowsOf(self, table, text_id) ==
    IF CursorError(self) # "" THEN {}
    ELSE IF \A i \in DOMAIN RootTables(CardDb(self)) : RootTables(CardDb(self))[i] # table
    THEN {}
    ELSE {row \in LocRows(CardDb(self), table) : row.LocId = text_id}

\* the text of the row SQLite returns first under ORDER BY Formatted DESC
TopLoc(rows) == (CHOOSE row \in rows : \A o \in rows : o.Formatted <= row.Formatted).Loc

IsTranslationCall ==
    /\ lastCall.op = "get_card_translation_id"
    /\ lastCall.text_id # None

\* C1: for every non-null text identifier with no row in the active table and
\* no row in the default table, get_card_translation_id returns the identifier
\* itself and raises nothing.
C1_UnresolvedReturnsIdentifier ==
    ( /\ IsTranslationCall
      /\ RowsOf(CallSelf, CallSelf.lang_table, lastCall.text_id) = {}
      /\ RowsOf(CallSelf, CallSelf.default_lang_table, lastCall.text_id) = {} )
    => lastCall.ret = lastCall.text_id

\* C1 witness: identifier 13 was looked up by a reader whose two tables are
\* distinct, exist in the database it reads and hold no row for it.
C1_Witness ==
    /\ IsTranslationCall
    /\ lastCall.text_id = PyInt(13)
    /\ CursorError(CallSelf) = ""
    /\ CallSelf.lang_table # CallSelf.default_lang_table
    /\ {CallSelf.lang_table, CallSelf.default_lang_table}
          \subseteq Range(RootTables(CardDb(CallSelf)))
    /\ lastCall.ret = PyInt(13)

\* C2 (as claimed): for every identifier with a row in the active table and a
\* row in the default table, get_card_translation_id returns the text of the
\* active table, whatever that text is.
C2_ActiveTablePreferred ==
    ( /\ IsTranslationCall
      /\ RowsOf(CallSelf, CallSelf.lang_table, lastCall.text_id) # {}
      /\ RowsOf(CallSelf, CallSelf.default_lang_table, lastCall.text_id) # {} )
    => lastCall.ret = TopLoc(RowsOf(CallSelf, CallSelf.lang_table, lastCall.text_id))

\* C3 (as claimed): when the lookup in the active table fails with a database
\* error and a distinct default table is set, the lookup is repeated against
\* the default table: its text is returned if it holds a row, and the
\* identifier only if that lookup finds nothing or fails too.
C3_FallbackAfterActiveError ==
    ( /\ IsTranslationCall
      /\ IsRaise(lookup_localization(CallSelf, lastCall.text_id, CallSelf.lang_table))
      /\ CallSelf.default_lang_table # NoTable
      /\ CallSelf.default_lang_table # CallSelf.lang_table )
    => lastCall.ret =
          IF RowsOf(CallSelf, CallSelf.default_lang_table, lastCall.text_id) # {}
          THEN TopLoc(RowsOf(CallSelf, CallSelf.default_lang_table, lastCall.text_id))
          ELSE lastCall.text_id

\* two characters that are one letter in either case
SameLetter(c, d) ==
    \/ c = d
    \/ Ord[c] = Ord[d] + 32 /\ Ord[d] >= 65 /\ Ord[d] <= 90
    \/ Ord[d] = Ord[c] + 32 /\ Ord[c] >= 65 /\ Ord[c] <= 90

IsSeparator(c) == c \in {"-", "_"}

\* two identifiers that differ only in letter case or in '-' and '_' separators
RECURSIVE SameModuloCaseSep(_, _)
SameModuloCaseSep(a, b) ==
    IF a # <<>> /\ IsSeparator(Head(a)) THEN SameModuloCaseSep(Tail(a), b)
    ELSE IF b # <<>> /\ IsSeparator(Head(b)) THEN SameModuloCaseSep(a, Tail(b))
    ELSE IF a = <<>> \/ b = <<>> THEN a = b
    ELSE SameLetter(Head(a), Head(b)) /\ SameModuloCaseSep(Tail(a), Tail(b))

\* spellings of the language identifiers
LangVariants ==
    Langs \cup
    { enUS, <<"e", "n", "-", "U", "S">>, <<"E", "N", "U", "S">>,
      <<"e", "n", "_", "U", "S">>, <<"-", "e", "n", "_", "_", "u", "S", "-">>,
      jaJP, <<"j", "a", "j", "p">>, <<"J", "A", "_", "J", "P">>,
      frFR, <<"f", "r", "-", "f", "r">>, <<"X", "X">>, <<"x", "-", "x">>,
      <<"e", "n">>, <<"e", "n", "u">>, <<"e", "n", "U", "S", "x">> }

IsSetLanguageCall ==
    /\ lastCall.op \in {"construct", "set_language"}
    /\ lastCall.sel.discovered

\* the table a set_language result selects, NoTable when it raised
Selected(ret) == IF IsRaise(ret) THEN NoTable ELSE ret.name

\* C4: identifiers that differ only in letter case or in '-' and '_'
\* separators select the same localization table from the same discovered
\* tables.
C4_SpellingInsensitive ==
    IsSetLanguageCall =>
        \A other \in LangVariants :
            SameModuloCaseSep(lastCall.lang, other) =>
                Selected(set_language(CallSelf, other).ret) = Selected(lastCall.sel.ret)

\* C4 witness: 'en_us' selected Localizations_enUS, and so do other spellings.
C4_Witness ==
    /\ IsSetLanguageCall
    /\ lastCall.lang = <<"e", "n", "_", "u", "s">>
    /\ lastCall.sel.ret = PyName(TableName(enUS))
    /\ \E other \in LangVariants :
          /\ other # lastCall.lang
          /\ SameModuloCaseSep(lastCall.lang, other)
          /\ set_language(CallSelf, other).ret = PyName(TableName(enUS))

\* a key is the normalized form of a table's language code
IsKeyOf(key, table) ==
    /\ SameModuloCaseSep(key, LangOf(table))
    /\ \A i \in DOMAIN key : ~IsSeparator(key[i]) /\ ~(Ord[key[i]] >= 65 /\ Ord[key[i]] <= 90)

\* C5: when the requested language matches no discovered table, set_language
\* (and so construction) fails with a ValueError whose message lists the
\* normalized key of every table; with no table at all it fails with a
\* ValueError too.
C5_UnknownLanguageRejected ==
    IsSetLanguageCall =>
        LET tables == lastCall.sel.available_tables
            ret == lastCall.sel.ret
        IN  /\ tables = <<>> => IsRaise(ret) /\ ret.exc = "ValueError"
            /\ ( /\ tables # <<>>
                 /\ \A i \in DOMAIN tables : ~SameModuloCaseSep(lastCall.lang, LangOf(tables[i])) )
               => /\ IsRaise(ret) /\ ret.exc = "ValueError"
                  /\ \A i \in DOMAIN tables :
                        \E j \in DOMAIN ret.options : IsKeyOf(ret.options[j], tables[i])
            /\ (lastCall.op = "construct" /\ IsRaise(ret)) => ~readers[lastCall.reader].alive

\* C5 witness: constructing a reader for 'xx' on the root with the tables
\* jaJP and frFR failed, and the message lists frfr and jajp.
C5_Witness ==
    /\ lastCall.op = "construct"
    /\ lastCall.lang = <<"x", "x">>
    /\ lastCall.sel.discovered
    /\ lastCall.sel.available_tables = <<TableName(frFR), TableName(jaJP)>>
    /\ lastCall.sel.ret.exc = "ValueError"
    /\ lastCall.sel.ret.options = <<StrLower(frFR), StrLower(jaJP)>>
    /\ ~readers[lastCall.reader].alive

\* every handle of the handle set is open
HandlesOpen == closed = {}

\* the step stored a new connection object in the class dict
StoresHandle ==
    /\ lastCall'.op \in {"construct", "get_databases"}
    /\ lastCall'.stored # {}

\* C7 (as claimed): connections are not shared across readers: while a reader
\* exists and its handles are open, no step other than its own close() or its
\* own get_databases() replaces or closes a handle of its handle set.
C7_ConnectionsNotShared ==
    [][ \A r \in Readers :
          ( /\ readers[r].alive
            /\ HandlesOpen
            /\ ~(lastCall'.op \in {"close", "get_databases"} /\ lastCall'.reader = r) )
          => (connections' = connections /\ closed' = closed /\ ~StoresHandle) ]_vars

\* the categories of the Enums table of a root
Categories(root) == {EnumRows(root)[i].Type : i \in DOMAIN EnumRows(root)}

\* C8 (as claimed): the enum table a reader observes is not changed after the
\* reader's construction by a lookup, set_language, close or the construction
\* of another reader (a get_enums() call is a rebuild, not counted here), and
\* it holds exactly the categories of the reader's own Enums table.
C8_EnumsImmutable ==
    [][ \A r \in Readers :
          (readers[r].alive /\ lastCall'.op # "get_enums") =>
              /\ enums' = enums
              /\ DOMAIN enums = Categories(readers[r].mtga_root_dir) ]_vars

-----------------------------------------------------------------------------
(* Properties of the card lookups (SpecCards) *)

\* C6 (as claimed): get_card_by_name with a limit N >= 0 returns at most N
\* records, and their GrpId are pairwise distinct.
C6_LimitBoundsResult ==
    ( /\ lastCall.op = "get_card_by_name"
      /\ lastCall.limit # None
      /\ ~IsRaise(lastCall.ret) )
    => /\ Len(lastCall.ret.list) <= lastCall.limit.int
       /\ \A i, j \in DOMAIN lastCall.ret.list :
             i # j => lastCall.ret.list[i].GrpId # lastCall.ret.list[j].GrpId

-----------------------------------------------------------------------------
(* The art extractor: find_card_art_file on the assets of a bundle *)

\* the card identifiers callers pass
CardIds == {123, 23}

\* container paths, as token sequences, and the type of the object behind them
Asset(path, type) == [path |-> path, type |-> type]

Assets ==
    { Asset(<<"Art/", "1", "2", "3", "_", "AIF", ".", "png">>, "Texture2D"),
      Asset(<<"Art/", "1", "2", "3", "_", "Util", ".", "png">>, "Texture2D"),
      Asset(<<"Art/", "1", "2", "3", "_", "Foil", ".", "png">>, "Sprite"),
      Asset(<<"Util", "/", "1", "2", "3", "_", "AIF", ".", "png">>, "Texture2D"),
      Asset(<<"Art/", "1", "2", "3", "_", "AIF", ".", "txt">>, "TextAsset"),
      Asset(<<"Art/", "1", "2", "3", "_", "Foil", ".", "tga">>, "Texture2D") }

RECURSIVE SeqsUpTo(_, _)
SeqsUpTo(S, n) ==
    IF n = 0 THEN {<<>>}
    ELSE LET shorter == SeqsUpTo(S, n - 1)
         IN  shorter \cup {Append(q, x) : q \in shorter, x \in S}

InitArt ==
    /\ InitReaders
    /\ InitDiscoverIdle
    /\ aCardId \in CardIds
    /\ aContainer \in SeqsUpTo(Assets, MaxAssets)
    /\ aResult = None

FindCardArtFile ==
    /\ aResult = None
    /\ aResult' = find_card_art_file(aCardId, aContainer)
    /\ UNCHANGED <<readerVars, discoverVars, aCardId, aContainer>>

NextArt == FindCardArtFile

SpecArt == InitArt /\ [][NextArt]_vars

\* the one role the claim gives an asset
RoleOf(card_id, path) ==
    IF HasUtil(path) THEN <<"util">>
    ELSE IF HasAif(card_id, path) THEN <<"image">>
    ELSE SuffixToken(path)

\* C10 (as claimed): every decoded image is stored under exactly one label,
\* 'util' for a Util path, 'image' for a '<card_id>_AIF.' path and the suffix
\* token for the others only: an image stored under a label has that label
\* as its one role.
C10_OneRolePerAsset ==
    aResult # None =>
        \A label \in DOMAIN aResult :
            aResult[label] # None => label = RoleOf(aCardId, aResult[label].path)

-----------------------------------------------------------------------------
(* The schema inspector's discovery: discover_databases.                   *)
(* The working directory holds                                             *)
(*   a.mtga  b.MTGA  notes.txt  data/c.mtga  data/sub/d.mtga               *)
(*   data/a_link.mtga -> ../a.mtga (a symbolic link)                       *)

mtga == <<".", "m", "t", "g", "a">>

\* a pathlib.Path: its text, the file Path.resolve() names, Path.suffix
Path(name, real, suffix) == [name |-> name, real |-> real, suffix |-> suffix]

P_a == Path("a.mtga", "a.mtga", mtga)
P_b == Path("b.MTGA", "b.MTGA", <<".", "M", "T", "G", "A">>)
P_notes == Path("notes.txt", "notes.txt", <<".", "t", "x", "t">>)
P_up == Path("data/../a.mtga", "a.mtga", mtga)
P_data == Path("data", "data", <<>>)
P_link == Path("data/a_link.mtga", "a.mtga", mtga)
P_c == Path("data/c.mtga", "data/c.mtga", mtga)
P_d == Path("data/sub/d.mtga", "data/sub/d.mtga", mtga)

\* the order of Path objects: the paths above, ascending
PathOrder == <<"a.mtga", "b.MTGA", "data", "data/../a.mtga", "data/a_link.mtga",
               "data/c.mtga", "data/sub/d.mtga", "notes.txt">>

PathLess(p, q) ==
    \E i, j \in DOMAIN PathOrder : PathOrder[i] = p.name /\ PathOrder[j] = q.name /\ i < j

\* sorted(S) for a set of paths
RECURSIVE SortedPaths(_)
SortedPaths(S) ==
    IF S = {} THEN <<>>
    ELSE LET m == CHOOSE x \in S : \A y \in S \ {x} : PathLess(x, y)
         IN  <<m>> \o SortedPaths(S \ {m})

\* the targets callers pass
Targets == {"a.mtga", "b.MTGA", "notes.txt", "data/../a.mtga", "data", "*.mtga",
            "data/*.mtga", "*", "**/*.mtga", "missing.mtga", "/srv/*.mtga"}

\* Path(target).is_file(), and the Path then
FileTargets == {"a.mtga", "b.MTGA", "notes.txt", "data/../a.mtga"}
PathOf(target) ==
    CASE target = "a.mtga" -> P_a
      [] target = "b.MTGA" -> P_b
      [] target = "notes.txt" -> P_notes
      [] target = "data/../a.mtga" -> P_up

\* Path(target).is_dir()
DirTargets == {"data"}

\* Path(base).glob(pattern): matching is case-sensitive and follows no '..'
Glob(base, pattern) ==
    CASE base = "data" /\ pattern = "*.mtga" -> {P_link, P_c}
      [] base = "data" /\ pattern = "**/*.mtga" -> {P_link, P_c, P_d}
      [] base = "" /\ pattern = "*.mtga" -> {P_a}
      [] base = "" /\ pattern = "data/*.mtga" -> {P_link, P_c}
      [] base = "" /\ pattern = "*" -> {P_a, P_b, P_data, P_notes}
      [] base = "" /\ pattern = "**/*.mtga" -> {P_a, P_link, P_c, P_d}
      [] base = "" /\ pattern = "notes.txt" -> {P_notes}
      [] OTHER -> {}

\* a pattern Path().glob refuses with NotImplementedError
NonRelative(pattern) == pattern = "/srv/*.mtga"

\* path.suffix.lower() == ".mtga"
SuffixIsMtga(path) == StrLower(path.suffix) = mtga

\* what one target adds to discovered
TargetPaths(target, recursive) ==
    IF target \in FileTargets /\ SuffixIsMtga(PathOf(target)) THEN <<PathOf(target)>>
    ELSE IF target \in DirTargets
    THEN SortedPaths(Glob(target, IF recursive THEN "**/*.mtga" ELSE "*.mtga"))
    ELSE SortedPaths(Glob("", target))

\* the first loop of discover_databases
RECURSIVE Discovered(_, _)
Discovered(targets, recursive) ==
    IF targets = <<>> THEN <<>>
    ELSE TargetPaths(Head(targets), recursive) \o Discovered(Tail(targets), recursive)

\* the second loop of discover_databases: unique_paths
RECURSIVE UniquePaths(_, _)
UniquePaths(discovered, seen) ==
    IF discovered = <<>> THEN <<>>
    ELSE LET path == Head(discovered)
         IN  IF ~SuffixIsMtga(path) \/ path.real \in seen
             THEN UniquePaths(Tail(discovered), seen)
             ELSE <<path>> \o UniquePaths(Tail(discovered), seen \cup {path.real})

\* discover_databases(targets, recursive)
discover_databases(targets, recursive) ==
    IF \E i \in DOMAIN targets :
          /\ ~(targets[i] \in FileTargets /\ SuffixIsMtga(PathOf(targets[i])))
          /\ targets[i] \notin DirTargets
          /\ NonRelative(targets[i])
    THEN Raise("NotImplementedError")
    ELSE PyList(SortedPaths(Range(UniquePaths(Discovered(targets, recursive), {}))))

InitDiscover ==
    /\ InitReaders
    /\ InitArtIdle
    /\ dTargets \in SeqsUpTo(Targets, MaxTargets)
    /\ dRecursive \in BOOLEAN
    /\ dResult = None

Discover ==
    /\ dResult = None
    /\ dResult' = discover_databases(dTargets, dRecursive)
    /\ UNCHANGED <<readerVars, artVars, dTargets, dRecursive>>

NextDiscover == Discover

SpecDiscover == InitDiscover /\ [][NextDiscover]_vars

\* the suffix is .mtga in some letter case
HasMtgaSuffix(path) ==
    /\ Len(path.suffix) = Len(mtga)
    /\ \A k \in DOMAIN mtga : SameLetter(path.suffix[k], mtga[k])

\* the .mtga files the targets reach
MatchingFiles ==
    {path.real : path \in {x \in Range(Discovered(dTargets, dRecursive)) : HasMtgaSuffix(x)}}

\* C9 (as claimed): for every list of targets and either value of the
\* recursive flag, discover_databases returns a list; the list is in ascending
\* order, holds each .mtga file the targets reach exactly once, however many
\* targets reach it, and holds no path without the .mtga suffix.
C9_DiscoverySortedUnique ==
    dResult # None =>
        /\ ~IsRaise(dResult)
        /\ LET found == dResult.list
           IN  /\ \A i, j \in DOMAIN found : i < j => PathLess(found[i], found[j])
               /\ \A i, j \in DOMAIN found : i # j => found[i].real # found[j].real
               /\ \A i \in DOMAIN found : HasMtgaSuffix(found[i])
               /\ MatchingFiles = {found[i].real : i \in DOMAIN found}

=============================================================================
